---- MODULE Spec2Model ----
(***************************************************************************)
(* Model of the voice-input pipeline of jarvis                             *)
(* (src/src/jarvis/input/voice_handler.py, driven by src/src/jarvis/main.py)*)
(*                                                                         *)
(*   AudioBuffer            ring buffer written by the capture callback    *)
(*   audio_queue            queue.Queue() between callback and consumers   *)
(*   audio_callback         the capture thread                             *)
(*   listen_for_wake_word,                                                 *)
(*   record_speech          the consumer loops of the voice loop           *)
(*   shutdown / cleanup     run by a signal handler or a UI callback thread*)
(*                                                                         *)
(* Samples are numbered 1, 2, 3, ... in the order the capture thread       *)
(* produces them; 0 is the value np.zeros() puts into fresh storage.       *)
(***************************************************************************)
EXTENDS Integers, Sequences, FiniteSets, TLC

----------------------------------------------------------------------------
(* Bounds and scaled configuration                                         *)

\* AudioBuffer(max_duration, sample_rate): seconds and samples per second,
\* scaled down from 30.0 s and 16000 Hz.
BufMaxDuration == 2
BufSampleRate == 2
\* longest array handed to AudioBuffer.write in the buffer specification
MaxWriteLen == 5
\* total number of samples appended in the buffer specification
MaxWritten == 9
\* read_last durations are k / DurDen seconds, k up to MaxReadOver beyond the
\* duration of the whole buffer
DurDen == 4
MaxReadOver == 4

\* config.voice.chunk_size: samples per capture callback, scaled down from 1024
chunk_size == 2
\* capture callbacks fired in the pipeline specification
MaxFrames == 4
\* the clock stops advancing here (ms)
MaxTime == 500
\* record_speech(max_duration) and VoiceHandler.silence_duration in the pipeline
\* specification, in ms, scaled down from 10.0 s and 2.0 s
VoiceMaxDuration == 300
VoiceSilenceDuration == 100

\* queue.Queue(): maxsize defaults to 0
QueueMaxsize == 0
\* audio_queue.get(timeout=0.1), in ms
PollTimeout == 100

\* the count of consecutive timed-out polls saturates here
MaxUnyielded == 2
\* turns of the text and UI tasks that are counted
MaxOtherRuns == 2
\* further cleanup() calls a client makes on the handler
MaxExtraCleanups == 1
\* config.voice.sample_rate of the pipeline specification, scaled down from
\* 16000 so that one frame is shorter than half a second of audio
sample_rate == 8

\* Endpointing scenario: the configuration defaults, times in ms
ConfigSampleRate == 16000
ConfigChunkSize == 1024
ConfigSilenceDuration == 2000
DefaultMaxDuration == 10000
\* the scenario feeds MinSpeechFrames .. MaxSpeechFrames speech frames, then
\* silence frames
MinSpeechFrames == 9
MaxSpeechFrames == 11

----------------------------------------------------------------------------
VARIABLES
    \* ---- AudioBuffer
    buffer,           \* AudioBuffer.buffer
    write_pos,        \* AudioBuffer.write_pos
    written,          \* history: every sample passed to AudioBuffer.write, in order
    read_result,      \* what the last read_last call returned
    \* ---- VoiceHandler
    audio_queue,      \* VoiceHandler.audio_queue: frames (by sequence number)
    audio_stream,     \* VoiceHandler.audio_stream: "None", "open" or "started"
    stop_event,       \* VoiceHandler.stop_event
    wwd_initialized,  \* WakeWordDetector.initialized
    stt_initialized,  \* SpeechToText.initialized
    silence_duration, \* VoiceHandler.silence_duration, in ms
    \* ---- capture thread
    nframes,          \* callbacks fired so far; the frame of callback k is frame k
    cb_pc,            \* "idle" or "put": where audio_callback is
    cb_status,        \* audio_callback: whether its status argument is set
    \* ---- voice processing loop (asyncio task of JarvisAssistant)
    pc,               \* position in start / _voice_processing_loop and its callees
    max_duration,     \* record_speech parameter, in ms
    audio_chunk,      \* listen_for_wake_word: the frame just dequeued (0: none)
    listen_result,    \* what listen_for_wake_word returned last
    speech_chunks,    \* record_speech: frames accumulated
    silence_start,    \* record_speech: << >> for None, <<t>> otherwise
    recording_start,  \* record_speech: time.time() at the start of the recording
    audio_data,       \* what record_speech returned last (<< >>: None)
    \* ---- shutdown
    running,          \* JarvisAssistant.running
    sd_pc,            \* position of the thread or signal handler running shutdown()
    \* ---- environment and history
    now,              \* time.time(), in ms
    scenario_speech,  \* endpointing scenario: number of leading speech frames
    enqueued,         \* history: frames put on audio_queue, in order
    delivered,        \* history: frames dequeued by the consumer loops, in order
    late_detect,      \* history: the stop flag was set when detect() accepted a frame
    late_poll,        \* history: this record_speech call began a poll with the stop flag set
    init_result,      \* what VoiceHandler.initialize() returned: "pending", "ok", "failed"
    detect_log,       \* history: what detect() returned, frame by frame, in this listen call
    unyielded_polls,  \* history: polls timed out since the voice task last suspended
    other_runs,       \* turns the event loop gave to the text and UI tasks
    stt_result,       \* outcome of the last speech_to_text(audio_data) call
    \* ---- AudioBuffer.lock and the threads inside write and read_last
    lock,             \* AudioBuffer.lock: "free", "writer" or "reader"
    wr_pc,            \* position of the capture thread inside write
    wr_data,          \* write: the data argument
    wr_before,        \* history: buffer and write_pos when this write was called
    rd_pc,            \* position of a reading thread inside read_last
    rd_k,             \* read_last: the duration argument, in 1/DurDen s
    rd_first,         \* read_last: first_part
    rd_result,        \* read_last: the array being returned
    rd_ret,           \* the array the last read_last call returned
    rd_value,         \* history: the content of rd_ret when it was returned
    rd_seen,          \* history: the buffer states that were whole during this read
    drain_mark,       \* history: how many frames had been enqueued and how many
                      \* delivered when record_speech finished clearing the queue
    engine_mark,      \* history: what had been captured and how often the other
                      \* tasks had run when the engine call was submitted
    vad_log,          \* history: has_speech of each frame of this recording
    cleanups          \* history: cleanup() calls made after the first returned

bufvars == <<buffer, write_pos, written, read_result>>
vhvars == <<audio_queue, audio_stream, stop_event, wwd_initialized,
            stt_initialized, silence_duration>>
cbvars == <<nframes, cb_pc, cb_status>>
loopvars == <<pc, max_duration, audio_chunk, listen_result, speech_chunks,
              silence_start, recording_start, audio_data>>
sdvars == <<running, sd_pc>>
histvars == <<enqueued, delivered, late_detect, late_poll>>
lockvars == <<lock, wr_pc, wr_data, wr_before, rd_pc, rd_k, rd_first,
              rd_result, rd_ret, rd_value, rd_seen>>
envvars == <<scenario_speech, lockvars, drain_mark, engine_mark,
             vad_log, cleanups>>
auxvars == <<envvars, init_result, detect_log, unyielded_polls,
             other_runs, stt_result>>
vars == <<bufvars, vhvars, cbvars, loopvars, sdvars, now, auxvars, histvars>>

----------------------------------------------------------------------------
(* Helpers over numpy-style arrays (0-based slices on 1-based sequences)   *)

Min(a, b) == IF a <= b THEN a ELSE b

\* np.zeros(n)
zeros(n) == [i \in 1..n |-> 0]

\* a[lo:hi] for 0 <= lo <= hi <= len(a)
Slice(a, lo, hi) == SubSeq(a, lo + 1, hi)

\* a[lo:lo+len(d)] = d
Assign(a, lo, d) ==
    [i \in 1..Len(a) |-> IF i > lo /\ i <= lo + Len(d) THEN d[i - lo] ELSE a[i]]

\* data[-n:] for 0 < n
Tail_n(data, n) ==
    IF Len(data) <= n THEN data ELSE SubSeq(data, Len(data) - n + 1, Len(data))

\* AudioBuffer.__init__: self.max_samples = int(max_duration * sample_rate)
max_samples == BufMaxDuration * BufSampleRate

\* write that does not wrap the cursor after an in-place copy
write_unwrapped(buf, wp, data) ==
    LET data_len == Len(data) IN
    IF data_len >= max_samples
    THEN [buffer |-> Tail_n(data, max_samples), write_pos |-> 0]
    ELSE IF wp + data_len <= max_samples
         THEN [buffer |-> Assign(buf, wp, data), write_pos |-> wp + data_len]
         ELSE LET first_part == max_samples - wp IN
              [buffer |-> Assign(Assign(buf, wp, Slice(data, 0, first_part)),
                                 0, Slice(data, first_part, data_len)),
               write_pos |-> data_len - first_part]

\* write that forgets to advance the cursor after an in-place copy
write_cursor_stuck(buf, wp, data) ==
    LET data_len == Len(data) IN
    IF data_len >= max_samples
    THEN [buffer |-> Tail_n(data, max_samples), write_pos |-> 0]
    ELSE IF wp + data_len <= max_samples
         THEN [buffer |-> Assign(buf, wp, data), write_pos |-> wp]
         ELSE LET first_part == max_samples - wp IN
              [buffer |-> Assign(Assign(buf, wp, Slice(data, 0, first_part)),
                                 0, Slice(data, first_part, data_len)),
               write_pos |-> data_len - first_part]

\* AudioBuffer.write, as a function of (buffer, write_pos, data)
write(buf, wp, data) ==
    LET data_len == Len(data) IN
    IF data_len >= max_samples
    THEN [buffer |-> Tail_n(data, max_samples), write_pos |-> 0]
    ELSE IF wp + data_len <= max_samples
         THEN [buffer |-> Assign(buf, wp, data),
               write_pos |-> (wp + data_len) % max_samples]
         ELSE LET first_part == max_samples - wp IN
              [buffer |-> Assign(Assign(buf, wp, Slice(data, 0, first_part)),
                                 0, Slice(data, first_part, data_len)),
               write_pos |-> data_len - first_part]

\* int(duration * self.sample_rate) for duration = k / DurDen seconds
duration_samples(k) == (k * BufSampleRate) \div DurDen

\* the duration (in 1/DurDen s) that covers the whole buffer
full_duration == BufMaxDuration * DurDen

\* the durations read_last is called with
ReadDurations == 0..(full_duration + MaxReadOver)

\* read_last that returns only the first slice of a window that wraps
read_last_unstitched(buf, wp, k) ==
    LET samples == Min(duration_samples(k), max_samples) IN
    IF samples >= max_samples
    THEN buf
    ELSE LET start_pos == (wp - samples) % max_samples IN
         IF start_pos + samples <= max_samples
         THEN Slice(buf, start_pos, start_pos + samples)
         ELSE Slice(buf, start_pos, max_samples)

\* read_last without the clamp, and returning the raw storage only for a
\* request beyond the capacity
read_last_unclamped(buf, wp, k) ==
    LET samples == duration_samples(k) IN
    IF samples > max_samples
    THEN buf
    ELSE LET start_pos == (wp - samples) % max_samples IN
         IF start_pos + samples <= max_samples
         THEN Slice(buf, start_pos, start_pos + samples)
         ELSE LET first_part == max_samples - start_pos IN
              Slice(buf, start_pos, max_samples)
                  \o Slice(buf, 0, samples - first_part)

\* AudioBuffer.read_last, as a function of (buffer, write_pos, duration)
read_last(buf, wp, k) ==
    LET samples == Min(duration_samples(k), max_samples) IN
    IF samples >= max_samples
    THEN buf
    ELSE LET start_pos == (wp - samples) % max_samples IN
         IF start_pos + samples <= max_samples
         THEN Slice(buf, start_pos, start_pos + samples)
         ELSE LET first_part == max_samples - start_pos IN
              Slice(buf, start_pos, max_samples)
                  \o Slice(buf, 0, samples - first_part)

----------------------------------------------------------------------------
(* Ring buffer specification: arbitrary appends and reads                  *)

\* the next n samples the capture thread produces
NextSamples(n) == [i \in 1..n |-> Len(written) + i]

InitBuf ==
    /\ buffer = zeros(max_samples)
    /\ write_pos = 0
    /\ written = << >>
    /\ read_result = << >>
    /\ lock = "free"
    /\ wr_pc = "idle"
    /\ wr_data = << >>
    /\ wr_before = [buffer |-> zeros(max_samples), write_pos |-> 0]
    /\ rd_pc = "idle"
    /\ rd_k = 0
    /\ rd_first = 0
    /\ rd_result = [view |-> FALSE, lo |-> 0, hi |-> 0, data |-> << >>]
    /\ rd_ret = [view |-> FALSE, lo |-> 0, hi |-> 0, data |-> << >>]
    /\ rd_value = << >>
    /\ rd_seen = {}

AudioBufferWrite ==
    \E n \in 0..MaxWriteLen :
        /\ Len(written) + n <= MaxWritten
        /\ LET data == NextSamples(n)
               w == write(buffer, write_pos, data)
           IN /\ buffer' = w.buffer
              /\ write_pos' = w.write_pos
              /\ written' = written \o data
        /\ UNCHANGED <<read_result, vhvars, cbvars, loopvars, sdvars, now,
                       auxvars, histvars>>

AudioBufferRead ==
    \E k \in ReadDurations :
        /\ read_result' = read_last(buffer, write_pos, k)
        /\ UNCHANGED <<buffer, write_pos, written, vhvars, cbvars, loopvars,
                       sdvars, now, auxvars, histvars>>

NextBuf == AudioBufferWrite \/ AudioBufferRead

----------------------------------------------------------------------------
(* Ring buffer under threads: write on the capture thread and read_last on  *)
(* a reading thread, statement by statement, both inside `with self.lock`   *)

\* everything outside the ring buffer and its lock
pipevars == <<read_result, vhvars, cbvars, loopvars, sdvars, now,
              scenario_speech, drain_mark, engine_mark, vad_log, cleanups,
              init_result,
              detect_log,
              unyielded_polls, other_runs, stt_result, histvars>>

\* self.buffer[lo:hi]: a view of the storage
view_of(lo, hi) == [view |-> TRUE, lo |-> lo, hi |-> hi, data |-> << >>]

\* what an array holds now: a view shows the storage as it is
contents(a) == IF a.view THEN Slice(buffer, a.lo, a.hi) ELSE a.data

\* a.copy(), and np.zeros(n) filled by assignment: an array with its own data
np_copy(a) == [view |-> FALSE, lo |-> 0, hi |-> 0, data |-> contents(a)]

\* the capture thread calls self.audio_buffer.write(data)
WriteCall ==
    /\ wr_pc = "idle"
    /\ \E n \in 0..MaxWriteLen :
        /\ Len(written) + n <= MaxWritten
        /\ wr_data' = NextSamples(n)
        /\ written' = written \o NextSamples(n)
    /\ wr_pc' = "acquire"
    /\ UNCHANGED <<buffer, write_pos, lock, wr_before, rd_pc, rd_k, rd_first,
                   rd_result, rd_ret, rd_value, rd_seen, pipevars>>

\* write: with self.lock
WriteLock ==
    /\ wr_pc = "acquire"
    /\ lock = "free"
    /\ lock' = "writer"
    /\ wr_before' = [buffer |-> buffer, write_pos |-> write_pos]
    /\ rd_seen' = IF rd_pc \in {"first", "second", "return"}
                  THEN rd_seen \cup {write(buffer, write_pos, wr_data)}
                  ELSE rd_seen
    /\ wr_pc' = "first"
    /\ UNCHANGED <<buffer, write_pos, written, wr_data, rd_pc, rd_k, rd_first,
                   rd_result, rd_ret, rd_value, pipevars>>

\* write: the first assignment to the storage of the branch taken
WriteFirstPart ==
    /\ wr_pc = "first"
    /\ LET data_len == Len(wr_data) IN
       IF data_len >= max_samples
       THEN /\ buffer' = Tail_n(wr_data, max_samples)
            /\ wr_pc' = "cursor"
       ELSE IF write_pos + data_len <= max_samples
            THEN /\ buffer' = Assign(buffer, write_pos, wr_data)
                 /\ wr_pc' = "cursor"
            ELSE /\ buffer' = Assign(buffer, write_pos,
                                     Slice(wr_data, 0, max_samples - write_pos))
                 /\ wr_pc' = "second"
    /\ UNCHANGED <<write_pos, written, lock, wr_data, wr_before, rd_pc, rd_k,
                   rd_first, rd_result, rd_ret, rd_value, rd_seen, pipevars>>

\* write, wrap around: self.buffer[:data_len - first_part] = data[first_part:]
WriteSecondPart ==
    /\ wr_pc = "second"
    /\ LET first_part == max_samples - write_pos IN
       buffer' = Assign(buffer, 0, Slice(wr_data, first_part, Len(wr_data)))
    /\ wr_pc' = "cursor"
    /\ UNCHANGED <<write_pos, written, lock, wr_data, wr_before, rd_pc, rd_k,
                   rd_first, rd_result, rd_ret, rd_value, rd_seen, pipevars>>

\* write: the assignment to self.write_pos, and the end of the with block
WriteCursor ==
    /\ wr_pc = "cursor"
    /\ LET data_len == Len(wr_data) IN
       write_pos' = IF data_len >= max_samples THEN 0
                    ELSE IF write_pos + data_len <= max_samples
                         THEN (write_pos + data_len) % max_samples
                         ELSE data_len - (max_samples - write_pos)
    /\ lock' = "free"
    /\ wr_pc' = "idle"
    /\ UNCHANGED <<buffer, written, wr_data, wr_before, rd_pc, rd_k, rd_first,
                   rd_result, rd_ret, rd_value, rd_seen, pipevars>>

\* a thread calls read_last(duration)
ReadCall ==
    /\ rd_pc = "idle"
    /\ \E k \in ReadDurations : rd_k' = k
    /\ rd_pc' = "acquire"
    /\ UNCHANGED <<buffer, write_pos, written, lock, wr_pc, wr_data, wr_before,
                   rd_first, rd_result, rd_ret, rd_value, rd_seen, pipevars>>

\* a read_last that does not take the lock
ReadLock_unlocked ==
    /\ rd_pc = "acquire"
    /\ rd_seen' = IF wr_pc \in {"first", "second", "cursor"}
                  THEN {wr_before,
                        write(wr_before.buffer, wr_before.write_pos, wr_data)}
                  ELSE {[buffer |-> buffer, write_pos |-> write_pos]}
    /\ rd_pc' = "first"
    /\ UNCHANGED <<buffer, write_pos, written, lock, wr_pc, wr_data, wr_before,
                   rd_k, rd_first, rd_result, rd_ret, rd_value, pipevars>>

\* read_last: with self.lock
ReadLock ==
    /\ rd_pc = "acquire"
    /\ lock = "free"
    /\ lock' = "reader"
    /\ rd_seen' = IF wr_pc \in {"first", "second", "cursor"}
                  THEN {wr_before,
                        write(wr_before.buffer, wr_before.write_pos, wr_data)}
                  ELSE {[buffer |-> buffer, write_pos |-> write_pos]}
    /\ rd_pc' = "first"
    /\ UNCHANGED <<buffer, write_pos, written, wr_pc, wr_data, wr_before,
                   rd_k, rd_first, rd_result, rd_ret, rd_value, pipevars>>

\* read_last: the clamp, start_pos, and the first copy out of the storage
ReadFirstPart ==
    /\ rd_pc = "first"
    /\ LET samples == Min(duration_samples(rd_k), max_samples)
           start_pos == (write_pos - samples) % max_samples
       IN IF samples >= max_samples
          THEN /\ rd_result' = np_copy(view_of(0, max_samples))
               /\ rd_pc' = "return"
               /\ UNCHANGED rd_first
          ELSE IF start_pos + samples <= max_samples
               THEN /\ rd_result' = np_copy(view_of(start_pos,
                                                    start_pos + samples))
                    /\ rd_pc' = "return"
                    /\ UNCHANGED rd_first
               ELSE /\ rd_first' = max_samples - start_pos
                    /\ rd_result' =
                           [view |-> FALSE, lo |-> 0, hi |-> 0,
                            data |-> Assign(zeros(samples), 0,
                                            Slice(buffer, start_pos,
                                                  max_samples))]
                    /\ rd_pc' = "second"
    /\ UNCHANGED <<buffer, write_pos, written, lock, wr_pc, wr_data, wr_before,
                   rd_k, rd_ret, rd_value, rd_seen, pipevars>>

\* read_last, wrap around:
\* result[first_part:] = self.buffer[:samples - first_part]
ReadSecondPart ==
    /\ rd_pc = "second"
    /\ LET samples == Len(rd_result.data) IN
       rd_result' = [rd_result EXCEPT
                        !.data = Assign(rd_result.data, rd_first,
                                        Slice(buffer, 0, samples - rd_first))]
    /\ rd_pc' = "return"
    /\ UNCHANGED <<buffer, write_pos, written, lock, wr_pc, wr_data, wr_before,
                   rd_k, rd_first, rd_ret, rd_value, rd_seen, pipevars>>

\* read_last: return, and the end of the with block
ReadReturn ==
    /\ rd_pc = "return"
    /\ rd_ret' = rd_result
    /\ rd_value' = contents(rd_result)
    /\ lock' = "free"
    /\ rd_pc' = "idle"
    /\ UNCHANGED <<buffer, write_pos, written, wr_pc, wr_data, wr_before, rd_k,
                   rd_first, rd_result, rd_seen, pipevars>>

NextLock ==
    \/ WriteCall \/ WriteLock \/ WriteFirstPart \/ WriteSecondPart
    \/ WriteCursor
    \/ ReadCall \/ ReadLock \/ ReadFirstPart \/ ReadSecondPart \/ ReadReturn


----------------------------------------------------------------------------
(* queue.Queue                                                             *)

\* Queue.full(): 0 < self.maxsize <= self._qsize()
full(q) == 0 < QueueMaxsize /\ QueueMaxsize <= Len(q)

\* Queue.empty()
empty(q) == Len(q) = 0

\* put on a queue that was given a capacity of two frames
put_blocks_at_two(q) == Len(q) >= 2

\* Queue.put(item) with block=True waits while this holds
put_blocks(q) == QueueMaxsize > 0 /\ Len(q) >= QueueMaxsize

\* a get that takes the newest item
get_newest(q) == [item |-> q[Len(q)], rest |-> SubSeq(q, 1, Len(q) - 1)]

\* Queue.get() / get_nowait() on a non-empty queue: the item and what is left
get(q) == [item |-> Head(q), rest |-> Tail(q)]

\* the samples of frame k
FrameSamples(k) == [i \in 1..chunk_size |-> (k - 1) * chunk_size + i]

\* len(audio_data) < self.sample_rate * 0.5
too_short(audio) == 2 * Len(audio) < sample_rate

\* np.concatenate(speech_chunks)
RECURSIVE concatenate(_)
concatenate(chunks) ==
    IF chunks = << >> THEN << >>
    ELSE FrameSamples(Head(chunks)) \o concatenate(Tail(chunks))

----------------------------------------------------------------------------
(* Initial state: JarvisAssistant and VoiceHandler constructed             *)

InitHandler ==
    /\ audio_queue = << >>
    /\ audio_stream = "None"
    /\ stop_event = FALSE
    /\ wwd_initialized = FALSE
    /\ stt_initialized = FALSE
    /\ nframes = 0
    /\ cb_pc = "idle"
    /\ cb_status = FALSE
    /\ audio_chunk = 0
    /\ listen_result = FALSE
    /\ speech_chunks = << >>
    /\ silence_start = << >>
    /\ recording_start = 0
    /\ audio_data = << >>
    /\ sd_pc = "idle"
    /\ now = 0
    /\ enqueued = << >>
    /\ delivered = << >>
    /\ late_detect = FALSE
    /\ late_poll = FALSE
    /\ drain_mark = [enqueued |-> 0, delivered |-> 0]
    /\ engine_mark = [written |-> 0, enqueued |-> 0, other_runs |-> 0]
    /\ vad_log = << >>
    /\ cleanups = 0
    /\ init_result = "pending"
    /\ detect_log = << >>
    /\ unyielded_polls = 0
    /\ other_runs = 0
    /\ stt_result = "none"

Init ==
    /\ InitBuf
    /\ InitHandler
    /\ pc = "start"
    /\ running = FALSE
    /\ silence_duration = VoiceSilenceDuration
    /\ max_duration = VoiceMaxDuration
    /\ scenario_speech = 0

----------------------------------------------------------------------------
(* Capture thread: audio_callback                                          *)

\* audio_callback, first half: if status: logger.warning(...); mono
\* conversion and self.audio_buffer.write(audio_data)
CallbackWrite(status) ==
    /\ audio_stream = "started"
    /\ cb_pc = "idle"
    /\ cb_status' = status
    /\ LET w == write(buffer, write_pos, FrameSamples(nframes + 1))
       IN /\ buffer' = w.buffer
          /\ write_pos' = w.write_pos
          /\ written' = written \o FrameSamples(nframes + 1)
    /\ nframes' = nframes + 1
    /\ cb_pc' = "put"
    /\ UNCHANGED <<read_result, vhvars, loopvars, sdvars, now, auxvars,
                   histvars>>

\* the hardware invokes the callback at any time while the stream runs
AudioCallbackWrite ==
    /\ nframes < MaxFrames
    /\ \E status \in BOOLEAN : CallbackWrite(status)

\* audio_callback, second half:
\* if not self.audio_queue.full(): self.audio_queue.put(audio_data.copy())
AudioCallbackPut ==
    /\ cb_pc = "put"
    /\ IF full(audio_queue)
       THEN UNCHANGED <<audio_queue, enqueued>>
       ELSE /\ ~put_blocks(audio_queue)
            /\ audio_queue' = Append(audio_queue, nframes)
            /\ enqueued' = Append(enqueued, nframes)
    /\ cb_pc' = "idle"
    /\ cb_status' = FALSE
    /\ UNCHANGED <<bufvars, audio_stream, stop_event, wwd_initialized,
                   stt_initialized, silence_duration, nframes, loopvars, sdvars,
                   now, auxvars, delivered, late_detect, late_poll>>

----------------------------------------------------------------------------
(* JarvisAssistant.start and VoiceHandler.initialize                       *)

\* start(): self.running = True, then the voice task is created
Start ==
    /\ pc = "start"
    /\ running' = TRUE
    /\ pc' = "init_wwd"
    /\ UNCHANGED <<bufvars, vhvars, cbvars, max_duration, audio_chunk,
                   listen_result, speech_chunks, silence_start, recording_start,
                   audio_data, sd_pc, now, auxvars, histvars>>

\* a loop that goes on to listen although initialize() returned False
InitWakeWord_ignored ==
    /\ pc = "init_wwd"
    /\ \E ok \in BOOLEAN :
        /\ wwd_initialized' = ok
        /\ init_result' = IF ok THEN init_result ELSE "failed"
        /\ pc' = IF ok THEN "init_stt" ELSE "while_running"
    /\ UNCHANGED <<bufvars, audio_queue, audio_stream, stop_event,
                   stt_initialized, silence_duration, cbvars, max_duration,
                   audio_chunk, listen_result, speech_chunks, silence_start,
                   recording_start, audio_data, sdvars, now, envvars,
                   detect_log, unyielded_polls, other_runs, stt_result,
                   histvars>>

\* initialize(): await self.wake_word_detector.initialize()
InitWakeWord ==
    /\ pc = "init_wwd"
    /\ \E ok \in BOOLEAN :
        /\ wwd_initialized' = ok
        /\ init_result' = IF ok THEN init_result ELSE "failed"
        /\ pc' = IF ok THEN "init_stt" ELSE "loop_done"
    /\ UNCHANGED <<bufvars, audio_queue, audio_stream, stop_event,
                   stt_initialized, silence_duration, cbvars, max_duration,
                   audio_chunk, listen_result, speech_chunks, silence_start,
                   recording_start, audio_data, sdvars, now, envvars,
                   detect_log, unyielded_polls, other_runs, stt_result,
                   histvars>>

\* initialize(): await self.speech_to_text.initialize()
InitSpeechToText ==
    /\ pc = "init_stt"
    /\ \E ok \in BOOLEAN :
        /\ stt_initialized' = ok
        /\ init_result' = IF ok THEN init_result ELSE "failed"
        /\ pc' = IF ok THEN "init_stream" ELSE "loop_done"
    /\ UNCHANGED <<bufvars, audio_queue, audio_stream, stop_event,
                   wwd_initialized, silence_duration, cbvars, max_duration,
                   audio_chunk, listen_result, speech_chunks, silence_start,
                   recording_start, audio_data, sdvars, now, envvars,
                   detect_log, unyielded_polls, other_runs, stt_result,
                   histvars>>

\* _start_audio_stream(): sd.InputStream(...) and self.audio_stream.start();
\* either may raise, and the exception makes initialize() return False
StartAudioStream ==
    /\ pc = "init_stream"
    /\ \E outcome \in {"ctor_raises", "start_raises", "ok"} :
        /\ audio_stream' = CASE outcome = "ctor_raises" -> audio_stream
                             [] outcome = "start_raises" -> "open"
                             [] outcome = "ok" -> "started"
        /\ init_result' = IF outcome = "ok" THEN "ok" ELSE "failed"
        /\ pc' = IF outcome = "ok" THEN "while_running" ELSE "loop_done"
    /\ UNCHANGED <<bufvars, audio_queue, stop_event, wwd_initialized,
                   stt_initialized, silence_duration, cbvars, max_duration,
                   audio_chunk, listen_result, speech_chunks, silence_start,
                   recording_start, audio_data, sdvars, now, envvars,
                   detect_log, unyielded_polls, other_runs, stt_result,
                   histvars>>

\* _voice_processing_loop(): while self.running
WhileRunning ==
    /\ pc = "while_running"
    /\ pc' = IF running THEN "listen_entry" ELSE "loop_done"
    /\ UNCHANGED <<bufvars, vhvars, cbvars, max_duration, audio_chunk,
                   listen_result, speech_chunks, silence_start, recording_start,
                   audio_data, sdvars, now, auxvars, histvars>>

----------------------------------------------------------------------------
(* VoiceHandler.listen_for_wake_word                                       *)

\* if not self.wake_word_detector.initialized: return False
ListenEntry ==
    /\ pc = "listen_entry"
    /\ IF wwd_initialized
       THEN pc' = "listen_while" /\ UNCHANGED listen_result
       ELSE pc' = "while_running" /\ listen_result' = FALSE
    /\ detect_log' = << >>
    /\ UNCHANGED <<bufvars, vhvars, cbvars, max_duration, audio_chunk,
                   speech_chunks, silence_start, recording_start, audio_data,
                   sdvars, now, envvars,
                   init_result, unyielded_polls, other_runs, stt_result, histvars>>

\* a loop that goes on to record whatever listen_for_wake_word returned
ListenWhile_records_anyway ==
    /\ pc = "listen_while"
    /\ IF stop_event
       THEN pc' = "rec_drain" /\ listen_result' = FALSE
       ELSE pc' = "listen_get" /\ UNCHANGED listen_result
    /\ UNCHANGED <<bufvars, vhvars, cbvars, max_duration, audio_chunk,
                   speech_chunks, silence_start, recording_start, audio_data,
                   sdvars, now, auxvars, histvars>>

\* while not self.stop_event.is_set(): ... return False
ListenWhile ==
    /\ pc = "listen_while"
    /\ IF stop_event
       THEN pc' = "while_running" /\ listen_result' = FALSE
       ELSE pc' = "listen_get" /\ UNCHANGED listen_result
    /\ UNCHANGED <<bufvars, vhvars, cbvars, max_duration, audio_chunk,
                   speech_chunks, silence_start, recording_start, audio_data,
                   sdvars, now, auxvars, histvars>>

\* audio_chunk = self.audio_queue.get(timeout=0.1), a frame is there
ListenGet ==
    /\ pc = "listen_get"
    /\ ~empty(audio_queue)
    /\ audio_chunk' = get(audio_queue).item
    /\ audio_queue' = get(audio_queue).rest
    /\ delivered' = Append(delivered, get(audio_queue).item)
    /\ pc' = "listen_detect"
    /\ UNCHANGED <<bufvars, audio_stream, stop_event, wwd_initialized,
                   stt_initialized, silence_duration, cbvars, max_duration,
                   listen_result, speech_chunks, silence_start, recording_start,
                   audio_data, sdvars, now, auxvars, enqueued,
                   late_detect, late_poll>>

\* the get times out: except queue.Empty: continue
ListenEmpty ==
    /\ pc = "listen_get"
    /\ empty(audio_queue)
    /\ now + PollTimeout <= MaxTime
    /\ now' = now + PollTimeout
    /\ pc' = "listen_while"
    /\ unyielded_polls' = Min(unyielded_polls + 1, MaxUnyielded)
    /\ UNCHANGED <<bufvars, vhvars, cbvars, max_duration, audio_chunk,
                   listen_result, speech_chunks, silence_start, recording_start,
                   audio_data, sdvars, envvars,
                   init_result, detect_log, other_runs, stt_result, histvars>>

\* WakeWordDetector.detect: False unless initialized, else what the engine says
detect(engine_says) == wwd_initialized /\ engine_says

\* a detection that is only acted upon once the queue has run empty
ListenDetect_late ==
    /\ pc = "listen_detect"
    /\ \E engine_says \in BOOLEAN :
        /\ detect_log' = Append(detect_log, detect(engine_says))
        /\ IF detect(engine_says) /\ empty(audio_queue)
           THEN /\ listen_result' = TRUE
                /\ late_detect' = (late_detect \/ stop_event)
                /\ pc' = "rec_drain"
           ELSE /\ pc' = "listen_while"
                /\ UNCHANGED <<listen_result, late_detect>>
    /\ UNCHANGED <<bufvars, vhvars, cbvars, max_duration, audio_chunk,
                   speech_chunks, silence_start, recording_start, audio_data,
                   sdvars, now, envvars, init_result, unyielded_polls,
                   other_runs, stt_result, enqueued, delivered, late_poll>>

\* if self.wake_word_detector.detect(audio_chunk): return True
ListenDetect ==
    /\ pc = "listen_detect"
    /\ \E engine_says \in BOOLEAN :
        /\ detect_log' = Append(detect_log, detect(engine_says))
        /\ IF detect(engine_says)
           THEN /\ listen_result' = TRUE
                /\ late_detect' = (late_detect \/ stop_event)
                /\ pc' = "rec_drain"
           ELSE /\ pc' = "listen_while"
                /\ UNCHANGED <<listen_result, late_detect>>
    /\ UNCHANGED <<bufvars, vhvars, cbvars, max_duration, audio_chunk,
                   speech_chunks, silence_start, recording_start, audio_data,
                   sdvars, now, envvars,
                   init_result, unyielded_polls, other_runs, stt_result, enqueued, delivered, late_poll>>

----------------------------------------------------------------------------
(* VoiceHandler.record_speech                                              *)

\* a record_speech that starts recording without clearing the queue
RecordDrain_keeps_queue ==
    /\ pc = "rec_drain"
    /\ speech_chunks' = << >>
    /\ silence_start' = << >>
    /\ recording_start' = now
    /\ late_poll' = FALSE
    /\ pc' = "rec_while"
    /\ drain_mark' = [enqueued |-> Len(enqueued), delivered |-> Len(delivered)]
    /\ vad_log' = << >>
    /\ UNCHANGED audio_queue
    /\ UNCHANGED <<bufvars, audio_stream, stop_event, wwd_initialized,
                   stt_initialized, silence_duration, cbvars, max_duration,
                   audio_chunk, listen_result, audio_data, sdvars, now,
                   scenario_speech, lockvars, cleanups, engine_mark, init_result,
                   detect_log,
                   unyielded_polls, other_runs, stt_result, enqueued,
                   delivered, late_detect>>

\* "Clear the queue": while not self.audio_queue.empty(): get_nowait();
\* then speech_chunks = [], silence_start = None, recording_start = time.time()
RecordDrain ==
    /\ pc = "rec_drain"
    /\ IF ~empty(audio_queue)
       THEN /\ audio_queue' = get(audio_queue).rest
            /\ UNCHANGED <<pc, speech_chunks, silence_start, recording_start,
                           late_poll, drain_mark, vad_log>>
       ELSE /\ speech_chunks' = << >>
            /\ silence_start' = << >>
            /\ recording_start' = now
            /\ late_poll' = FALSE
            /\ pc' = "rec_while"
            /\ drain_mark' = [enqueued |-> Len(enqueued),
                              delivered |-> Len(delivered)]
            /\ vad_log' = << >>
            /\ UNCHANGED audio_queue
    /\ UNCHANGED <<bufvars, audio_stream, stop_event, wwd_initialized,
                   stt_initialized, silence_duration, cbvars, max_duration,
                   audio_chunk, listen_result, audio_data, sdvars, now,
                   scenario_speech, lockvars, cleanups, engine_mark, init_result,
                   detect_log,
                   unyielded_polls, other_runs, stt_result, enqueued,
                   delivered, late_detect>>

\* a loop test that lets a poll begin at the very instant of the cap
RecordWhile_inclusive ==
    /\ pc = "rec_while"
    /\ IF now - recording_start <= max_duration
       THEN pc' = "rec_get" /\ late_poll' = (late_poll \/ stop_event)
       ELSE pc' = "rec_end" /\ UNCHANGED late_poll
    /\ UNCHANGED <<bufvars, vhvars, cbvars, max_duration, audio_chunk,
                   listen_result, speech_chunks, silence_start, recording_start,
                   audio_data, sdvars, now, auxvars, enqueued, delivered,
                   late_detect>>

\* while time.time() - recording_start < max_duration
RecordWhile ==
    /\ pc = "rec_while"
    /\ IF now - recording_start < max_duration
       THEN pc' = "rec_get" /\ late_poll' = (late_poll \/ stop_event)
       ELSE pc' = "rec_end" /\ UNCHANGED late_poll
    /\ UNCHANGED <<bufvars, vhvars, cbvars, max_duration, audio_chunk,
                   listen_result, speech_chunks, silence_start, recording_start,
                   audio_data, sdvars, now, auxvars, enqueued, delivered,
                   late_detect>>

\* an endpoint rule that also breaks when exactly silence_duration has passed
endpoint_inclusive(has_speech, ss, t) ==
    IF has_speech
    THEN [silence_start |-> << >>, brk |-> FALSE]
    ELSE IF ss = << >>
         THEN [silence_start |-> <<t>>, brk |-> FALSE]
         ELSE [silence_start |-> ss, brk |-> t - ss[1] >= silence_duration]

\* an endpoint rule that restarts the silence timer on every silence frame
endpoint_restarting(has_speech, ss, t) ==
    IF has_speech
    THEN [silence_start |-> << >>, brk |-> FALSE]
    ELSE [silence_start |-> <<t>>, brk |-> FALSE]

\* the endpoint rule applied to one frame at time t: the new silence_start and
\* whether the loop breaks
endpoint(has_speech, ss, t) ==
    IF has_speech
    THEN [silence_start |-> << >>, brk |-> FALSE]
    ELSE IF ss = << >>
         THEN [silence_start |-> <<t>>, brk |-> FALSE]
         ELSE [silence_start |-> ss, brk |-> t - ss[1] > silence_duration]

\* audio_chunk = self.audio_queue.get(timeout=0.1), a frame is there;
\* speech_chunks.append(audio_chunk); has_speech = self.vad.is_speech(audio_chunk)
RecordFrame(has_speech) ==
    /\ pc = "rec_get"
    /\ ~empty(audio_queue)
    /\ audio_queue' = get(audio_queue).rest
    /\ speech_chunks' = Append(speech_chunks, get(audio_queue).item)
    /\ delivered' = Append(delivered, get(audio_queue).item)
    /\ vad_log' = Append(vad_log, has_speech)
    /\ LET e == endpoint(has_speech, silence_start, now)
       IN /\ silence_start' = e.silence_start
          /\ pc' = IF e.brk THEN "rec_end" ELSE "rec_while"
    /\ UNCHANGED <<bufvars, audio_stream, stop_event, wwd_initialized,
                   stt_initialized, silence_duration, cbvars, max_duration,
                   audio_chunk, listen_result, recording_start, audio_data,
                   sdvars, now, scenario_speech, lockvars, cleanups, drain_mark,
                   engine_mark, init_result, detect_log, unyielded_polls,
                   other_runs, stt_result, enqueued, late_detect, late_poll>>

\* the voice activity detector is an external classifier
RecordGet == \E has_speech \in BOOLEAN : RecordFrame(has_speech)

\* a timed-out poll that also applies the silence test and may end the
\* recording
RecordEmpty_ends_on_silence ==
    /\ pc = "rec_get"
    /\ empty(audio_queue)
    /\ now + PollTimeout <= MaxTime
    /\ now' = now + PollTimeout
    /\ pc' = IF silence_start # << >>
                /\ now + PollTimeout - silence_start[1] > silence_duration
             THEN "rec_end" ELSE "rec_while"
    /\ unyielded_polls' = Min(unyielded_polls + 1, MaxUnyielded)
    /\ UNCHANGED <<bufvars, vhvars, cbvars, max_duration, audio_chunk,
                   listen_result, speech_chunks, silence_start, recording_start,
                   audio_data, sdvars, envvars,
                   init_result, detect_log, other_runs, stt_result, histvars>>

\* the get times out: except queue.Empty: continue
RecordEmpty ==
    /\ pc = "rec_get"
    /\ empty(audio_queue)
    /\ now + PollTimeout <= MaxTime
    /\ now' = now + PollTimeout
    /\ pc' = "rec_while"
    /\ unyielded_polls' = Min(unyielded_polls + 1, MaxUnyielded)
    /\ UNCHANGED <<bufvars, vhvars, cbvars, max_duration, audio_chunk,
                   listen_result, speech_chunks, silence_start, recording_start,
                   audio_data, sdvars, envvars,
                   init_result, detect_log, other_runs, stt_result, histvars>>

\* if speech_chunks: return np.concatenate(speech_chunks); return None
RecordEnd ==
    /\ pc = "rec_end"
    /\ audio_data' = IF speech_chunks # << >> THEN concatenate(speech_chunks)
                     ELSE << >>
    /\ pc' = "truth_test"
    /\ UNCHANGED <<bufvars, vhvars, cbvars, max_duration, audio_chunk,
                   listen_result, speech_chunks, silence_start, recording_start,
                   sdvars, now, auxvars, histvars>>

----------------------------------------------------------------------------
(* _voice_processing_loop after record_speech                              *)

\* if audio_data: None is false, bool() of an array of more than one element
\* raises ValueError (caught by the loop's except), and a one-element array is
\* true iff its element is not 0, which leads on to the speech_to_text call
TruthTest ==
    /\ pc = "truth_test"
    /\ pc' = IF audio_data = << >> THEN "while_running"
             ELSE IF Len(audio_data) > 1 THEN "except_sleep"
             ELSE IF audio_data[1] # 0 THEN "stt_call"
             ELSE "while_running"
    /\ UNCHANGED <<bufvars, vhvars, cbvars, max_duration, audio_chunk,
                   listen_result, speech_chunks, silence_start, recording_start,
                   audio_data, sdvars, now, auxvars, histvars>>

\* a handler placed around the while loop: the exception ends the loop
ExceptSleep_ends_loop ==
    /\ pc = "except_sleep"
    /\ pc' = "loop_done"
    /\ unyielded_polls' = 0
    /\ UNCHANGED <<bufvars, vhvars, cbvars, max_duration, audio_chunk,
                   listen_result, speech_chunks, silence_start, recording_start,
                   audio_data, sdvars, now, envvars,
                   init_result, detect_log, other_runs, stt_result, histvars>>

\* except Exception: logger.error(...); await asyncio.sleep(1)
ExceptSleep ==
    /\ pc = "except_sleep"
    /\ pc' = "while_running"
    /\ unyielded_polls' = 0
    /\ UNCHANGED <<bufvars, vhvars, cbvars, max_duration, audio_chunk,
                   listen_result, speech_chunks, silence_start, recording_start,
                   audio_data, sdvars, now, envvars,
                   init_result, detect_log, other_runs, stt_result, histvars>>

----------------------------------------------------------------------------
(* The other tasks of the event loop: _text_input_loop, _ui_management_loop *)

\* a task that runs the engine call on the event loop thread itself
voice_task_suspended_without_executor == pc \in {"except_sleep", "loop_done"}

\* the voice task holds the event loop thread except while it is suspended in
\* asyncio.sleep(1), after it has returned, or while a caller of
\* SpeechToText.transcribe awaits loop.run_in_executor; no other await of
\* the loop reaches a future
voice_task_suspended ==
    pc \in {"except_sleep", "loop_done", "transcribe_await"}

\* one turn of _text_input_loop or _ui_management_loop (while self.running:
\* ... await asyncio.sleep(0.1)), given by the event loop
OtherTaskStep ==
    /\ voice_task_suspended
    /\ running
    /\ other_runs < MaxOtherRuns
    /\ other_runs' = other_runs + 1
    /\ UNCHANGED <<bufvars, vhvars, cbvars, loopvars, sdvars, now,
                   envvars, init_result, detect_log, unyielded_polls,
                   stt_result, histvars>>

----------------------------------------------------------------------------
(* JarvisAssistant.shutdown and VoiceHandler.cleanup, run by the signal     *)
(* handler or by the thread of a UI callback                               *)

\* shutdown(): if not self.running: return; self.running = False
ShutdownCall ==
    /\ sd_pc \in {"idle", "returned"}
    /\ IF running
       THEN running' = FALSE /\ sd_pc' = "cleanup_stop"
       ELSE sd_pc' = "returned" /\ UNCHANGED running
    /\ UNCHANGED <<bufvars, vhvars, cbvars, loopvars, now, auxvars,
                   histvars>>

\* cleanup(): self.stop_event.set()
CleanupStop ==
    /\ sd_pc = "cleanup_stop"
    /\ stop_event' = TRUE
    /\ sd_pc' = "cleanup_stream"
    /\ UNCHANGED <<bufvars, audio_queue, audio_stream, wwd_initialized,
                   stt_initialized, silence_duration, cbvars, loopvars, running,
                   now, auxvars, histvars>>

\* cleanup(): if self.audio_stream: stop(); close(); self.audio_stream = None
\* (stop() returns once the running callback has returned)
CleanupStream ==
    /\ sd_pc = "cleanup_stream"
    /\ audio_stream = "started" => cb_pc = "idle"
    /\ audio_stream' = "None"
    /\ sd_pc' = "cleanup_wwd"
    /\ UNCHANGED <<bufvars, audio_queue, stop_event, wwd_initialized,
                   stt_initialized, silence_duration, cbvars, loopvars, running,
                   now, auxvars, histvars>>

\* cleanup(): self.wake_word_detector.cleanup()
CleanupWakeWord ==
    /\ sd_pc = "cleanup_wwd"
    /\ wwd_initialized' = FALSE
    /\ sd_pc' = "cleanup_queue"
    /\ UNCHANGED <<bufvars, audio_queue, audio_stream, stop_event,
                   stt_initialized, silence_duration, cbvars, loopvars, running,
                   now, auxvars, histvars>>

\* cleanup(): while not self.audio_queue.empty(): get_nowait()
CleanupQueue ==
    /\ sd_pc = "cleanup_queue"
    /\ IF ~empty(audio_queue)
       THEN audio_queue' = get(audio_queue).rest /\ UNCHANGED sd_pc
       ELSE sd_pc' = "done" /\ UNCHANGED audio_queue
    /\ UNCHANGED <<bufvars, audio_stream, stop_event, wwd_initialized,
                   stt_initialized, silence_duration, cbvars, loopvars, running,
                   now, auxvars, histvars>>

----------------------------------------------------------------------------
(* Time                                                                    *)

\* time passes while the threads run
Tick ==
    /\ now + PollTimeout <= MaxTime
    /\ now' = now + PollTimeout
    /\ UNCHANGED <<bufvars, vhvars, cbvars, loopvars, sdvars, auxvars,
                   histvars>>

----------------------------------------------------------------------------
(* The pipeline specification                                              *)

Next ==
    \/ AudioCallbackWrite \/ AudioCallbackPut
    \/ Start \/ InitWakeWord \/ InitSpeechToText \/ StartAudioStream
    \/ WhileRunning
    \/ ListenEntry \/ ListenWhile \/ ListenGet \/ ListenEmpty \/ ListenDetect
    \/ RecordDrain \/ RecordWhile \/ RecordGet \/ RecordEmpty \/ RecordEnd
    \/ TruthTest \/ ExceptSleep
    \/ OtherTaskStep
    \/ ShutdownCall \/ CleanupStop \/ CleanupStream \/ CleanupWakeWord
    \/ CleanupQueue
    \/ Tick

Spec == Init /\ [][Next]_vars

----------------------------------------------------------------------------
(* The handler used by a client that calls cleanup() again                  *)

\* a further call of VoiceHandler.cleanup() on the same handler, after an
\* earlier cleanup() has returned
CleanupAgain ==
    /\ sd_pc = "done"
    /\ cleanups < MaxExtraCleanups
    /\ cleanups' = cleanups + 1
    /\ sd_pc' = "cleanup_stop"
    /\ UNCHANGED <<bufvars, vhvars, cbvars, loopvars, running, now,
                   scenario_speech, lockvars, drain_mark, engine_mark,
                   vad_log, init_result, detect_log, unyielded_polls,
                   other_runs, stt_result, histvars>>

NextHandler == Next \/ CleanupAgain

SpecHandler == Init /\ [][NextHandler]_vars

SpecBuf == Init /\ [][NextBuf]_vars

SpecLock == Init /\ [][NextLock]_vars

----------------------------------------------------------------------------
(* Endpointing scenario: record_speech() on a running handler, one frame    *)
(* every chunk_size / sample_rate seconds, each processed as it arrives;    *)
(* the first scenario_speech frames are speech, the rest silence            *)

\* time between two capture callbacks, in ms
frame_period == (1000 * ConfigChunkSize) \div ConfigSampleRate

\* initialize() has succeeded: the engines are up and the stream is started
InitEndpoint ==
    /\ audio_queue = << >>
    /\ audio_stream = "started"
    /\ stop_event = FALSE
    /\ wwd_initialized = TRUE
    /\ stt_initialized = TRUE
    /\ nframes = 0
    /\ cb_pc = "idle"
    /\ cb_status = FALSE
    /\ audio_chunk = 0
    /\ listen_result = TRUE
    /\ speech_chunks = << >>
    /\ silence_start = << >>
    /\ recording_start = 0
    /\ audio_data = << >>
    /\ sd_pc = "idle"
    /\ now = 0
    /\ enqueued = << >>
    /\ delivered = << >>
    /\ late_detect = FALSE
    /\ late_poll = FALSE
    /\ drain_mark = [enqueued |-> 0, delivered |-> 0]
    /\ engine_mark = [written |-> 0, enqueued |-> 0, other_runs |-> 0]
    /\ vad_log = << >>
    /\ cleanups = 0
    /\ init_result = "ok"
    /\ detect_log = << >>
    /\ unyielded_polls = 0
    /\ other_runs = 0
    /\ stt_result = "none"
    /\ InitBuf
    /\ pc = "rec_drain"
    /\ running = TRUE
    /\ silence_duration = ConfigSilenceDuration
    /\ max_duration = DefaultMaxDuration
    /\ scenario_speech \in MinSpeechFrames..MaxSpeechFrames

\* the consumer waits in get() until the next frame is due
ScenarioTick ==
    /\ pc = "rec_get"
    /\ empty(audio_queue)
    /\ cb_pc = "idle"
    /\ now = nframes * frame_period
    /\ now' = now + frame_period
    /\ UNCHANGED <<bufvars, vhvars, cbvars, loopvars, sdvars, auxvars,
                   histvars>>

\* frame k arrives at time k * frame_period
ScenarioCallbackWrite ==
    /\ now = (nframes + 1) * frame_period
    /\ CallbackWrite(FALSE)

\* the classifier reports speech for the first scenario_speech frames only
ScenarioRecordGet == RecordFrame(Len(speech_chunks) < scenario_speech)

NextEndpoint ==
    \/ ScenarioTick \/ ScenarioCallbackWrite \/ AudioCallbackPut
    \/ RecordDrain \/ RecordWhile \/ ScenarioRecordGet \/ RecordEnd

SpecEndpoint == InitEndpoint /\ [][NextEndpoint]_vars

----------------------------------------------------------------------------
(* Direct use of a running handler: record_speech() with an arbitrary       *)
(* classifier, then speech_to_text(audio_data).  Frames arrive once per     *)
(* frame_period until the device stalls; time passes only while the         *)
(* consumer waits in get(), for a frame or for the whole timeout            *)

\* initialize() has run: the wake-word engine is up and the stream started
InitDirect ==
    /\ audio_queue = << >>
    /\ audio_stream = "started"
    /\ stop_event = FALSE
    /\ wwd_initialized = TRUE
    /\ stt_initialized \in BOOLEAN
    /\ nframes = 0
    /\ cb_pc = "idle"
    /\ cb_status = FALSE
    /\ audio_chunk = 0
    /\ listen_result = TRUE
    /\ speech_chunks = << >>
    /\ silence_start = << >>
    /\ recording_start = 0
    /\ audio_data = << >>
    /\ sd_pc = "idle"
    /\ now = 0
    /\ enqueued = << >>
    /\ delivered = << >>
    /\ late_detect = FALSE
    /\ late_poll = FALSE
    /\ drain_mark = [enqueued |-> 0, delivered |-> 0]
    /\ engine_mark = [written |-> 0, enqueued |-> 0, other_runs |-> 0]
    /\ vad_log = << >>
    /\ cleanups = 0
    /\ init_result = "ok"
    /\ detect_log = << >>
    /\ unyielded_polls = 0
    /\ other_runs = 0
    /\ stt_result = "none"
    /\ InitBuf
    /\ pc = "rec_drain"
    /\ running = TRUE
    /\ silence_duration = VoiceSilenceDuration
    /\ max_duration = VoiceMaxDuration
    /\ scenario_speech = 0

\* the names VoiceHandler.__init__ binds on the instance
InstanceAttributes ==
    {"sample_rate", "chunk_size", "silence_threshold", "silence_duration",
     "wake_word_detector", "speech_to_text", "vad", "audio_buffer",
     "audio_stream", "audio_queue", "recording", "listening", "audio_thread",
     "processing_thread", "stop_event"}

\* the functions of the class body of VoiceHandler
ClassFunctions ==
    {"__init__", "initialize", "_start_audio_stream", "listen_for_wake_word",
     "record_speech", "speech_to_text", "cleanup"}

\* voice_handler.<name>: the dictionary of the instance is searched before
\* the functions of the class
lookup(name) ==
    IF name \in InstanceAttributes THEN "instance_attribute"
    ELSE IF name \in ClassFunctions THEN "bound_method"
    ELSE "AttributeError"

\* SpeechToText.transcribe: None unless initialized; the text of the engine,
\* None when it recognizes nothing or raises (engine: "text", "nothing",
\* "raises")
transcribe(engine) ==
    IF ~stt_initialized THEN "None"
    ELSE IF engine = "text" THEN "text"
    ELSE "None"

\* the body of VoiceHandler.speech_to_text
speech_to_text(audio, engine) ==
    IF ~stt_initialized THEN "None"
    ELSE IF too_short(audio) THEN "None"
    ELSE transcribe(engine)

\* voice_handler.speech_to_text(audio_data): calling the SpeechToText object
\* that __init__ bound under this name raises TypeError, it has no __call__
speech_to_text_call(audio, engine) ==
    IF lookup("speech_to_text") = "bound_method"
    THEN speech_to_text(audio, engine)
    ELSE "raised"

\* text = await self.voice_handler.speech_to_text(audio_data), by a caller
\* that holds the utterance record_speech returned
DirectSpeechToText ==
    /\ pc = "truth_test"
    /\ audio_data # << >>
    /\ \E engine \in {"text", "nothing", "raises"} :
           stt_result' = speech_to_text_call(audio_data, engine)
    /\ pc' = "stt_done"
    /\ UNCHANGED <<bufvars, vhvars, cbvars, max_duration, audio_chunk,
                   listen_result, speech_chunks, silence_start, recording_start,
                   audio_data, sdvars, now, envvars, init_result,
                   detect_log, unyielded_polls, other_runs, histvars>>

\* the device has stalled: no frame is arriving, and the get times out
StalledRecordEmpty ==
    /\ cb_pc = "idle"
    /\ now # (nframes + 1) * frame_period
    /\ RecordEmpty

NextDirect ==
    \/ ScenarioTick \/ ScenarioCallbackWrite \/ AudioCallbackPut
    \/ RecordDrain \/ RecordWhile \/ RecordGet \/ StalledRecordEmpty
    \/ RecordEnd \/ DirectSpeechToText

SpecDirect == InitDirect /\ [][NextDirect]_vars

----------------------------------------------------------------------------
(* SpeechToText.transcribe called on a running handler by a task of the     *)
(* event loop that holds an utterance: handler.speech_to_text.transcribe    *)

\* the utterances the caller may hold: one to three frames
HeldUtterances ==
    {concatenate([i \in 1..n |-> i]) : n \in 1..(MaxFrames - 1)}

InitTranscribe ==
    /\ audio_queue = << >>
    /\ audio_stream = "started"
    /\ stop_event = FALSE
    /\ wwd_initialized = TRUE
    /\ stt_initialized \in BOOLEAN
    /\ nframes = 0
    /\ cb_pc = "idle"
    /\ cb_status = FALSE
    /\ audio_chunk = 0
    /\ listen_result = FALSE
    /\ speech_chunks = << >>
    /\ silence_start = << >>
    /\ recording_start = 0
    /\ audio_data \in HeldUtterances
    /\ sd_pc = "idle"
    /\ now = 0
    /\ enqueued = << >>
    /\ delivered = << >>
    /\ late_detect = FALSE
    /\ late_poll = FALSE
    /\ drain_mark = [enqueued |-> 0, delivered |-> 0]
    /\ engine_mark = [written |-> 0, enqueued |-> 0, other_runs |-> 0]
    /\ vad_log = << >>
    /\ cleanups = 0
    /\ init_result = "ok"
    /\ detect_log = << >>
    /\ unyielded_polls = 0
    /\ other_runs = 0
    /\ stt_result = "none"
    /\ InitBuf
    /\ pc = "transcribe_call"
    /\ running = TRUE
    /\ silence_duration = VoiceSilenceDuration
    /\ max_duration = VoiceMaxDuration
    /\ scenario_speech = 0

\* transcribe(): if not self.initialized: return None; otherwise
\* _transcribe_*: await loop.run_in_executor(None, lambda:
\* self.model.transcribe(audio_data, language="en")) hands the engine call
\* to a thread of the pool and suspends the caller
TranscribeCall ==
    /\ pc = "transcribe_call"
    /\ IF ~stt_initialized
       THEN /\ stt_result' = transcribe("nothing")
            /\ pc' = "transcribe_done"
            /\ UNCHANGED engine_mark
       ELSE /\ pc' = "transcribe_await"
            /\ engine_mark' = [written |-> Len(written),
                               enqueued |-> Len(enqueued),
                               other_runs |-> other_runs]
            /\ UNCHANGED stt_result
    /\ UNCHANGED <<bufvars, vhvars, cbvars, max_duration, audio_chunk,
                   listen_result, speech_chunks, silence_start, recording_start,
                   audio_data, sdvars, now, scenario_speech, lockvars, cleanups,
                   drain_mark, vad_log, init_result, detect_log, unyielded_polls,
                   other_runs, histvars>>

\* the pool thread finishes the engine call and the event loop resumes the
\* caller with its result or its exception; the caller joins and strips the
\* text and returns it, or None when the text is empty or anything raised
EngineReturn ==
    /\ pc = "transcribe_await"
    /\ \E engine \in {"text", "nothing", "raises"} :
           stt_result' = transcribe(engine)
    /\ pc' = "transcribe_done"
    /\ UNCHANGED <<bufvars, vhvars, cbvars, max_duration, audio_chunk,
                   listen_result, speech_chunks, silence_start, recording_start,
                   audio_data, sdvars, now, envvars, init_result,
                   detect_log, unyielded_polls, other_runs, histvars>>

NextTranscribe ==
    \/ AudioCallbackWrite \/ AudioCallbackPut
    \/ TranscribeCall \/ EngineReturn \/ OtherTaskStep

SpecTranscribe == InitTranscribe /\ [][NextTranscribe]_vars

----------------------------------------------------------------------------
(* Claims about the ring buffer (SpecBuf)                                  *)

\* C1 (as stated): once more than max_samples samples have been appended,
\* read_last(full duration) returns the last max_samples samples appended,
\* oldest first, wherever the write cursor stands.
C1_OverwriteChronological ==
    Len(written) > max_samples =>
        read_last(buffer, write_pos, full_duration) = Tail_n(written, max_samples)

C3_Clamping ==
    \A k \in ReadDurations :
        duration_samples(k) > max_samples =>
            /\ read_last(buffer, write_pos, k) =
                   read_last(buffer, write_pos, full_duration)
            /\ Len(read_last(buffer, write_pos, k)) = max_samples

\* a wrapped buffer, read with a duration beyond the capacity
C3_Witness ==
    /\ Len(written) > max_samples
    /\ write_pos # 0
    /\ duration_samples(full_duration + MaxReadOver) > max_samples
    /\ read_result = read_last(buffer, write_pos, full_duration + MaxReadOver)
    /\ Len(read_result) = max_samples

----------------------------------------------------------------------------
(* Claims about the channel and the consumer loops (Spec)                   *)

\* a capacity the channel would have to respect: any number below the number
\* of frames the capture thread produces
FrameChannelCapacity == MaxFrames - 1

\* C4 (as stated): the number of frames queued never exceeds a fixed capacity.
C4_Bounded == Len(audio_queue) <= FrameChannelCapacity

\* C5 (as stated): a callback that finds the channel at its capacity leaves
\* the queued frames as they are.
C5_DropNewest ==
    [][(cb_pc = "put" /\ cb_pc' = "idle"
            /\ Len(audio_queue) >= FrameChannelCapacity)
        => audio_queue' = audio_queue]_vars

\* C6: a callback that has appended to the ring buffer can always take its
\* push step and return, whatever the consumer does.
C6_CallbackNeverWaits == cb_pc = "put" => ENABLED AudioCallbackPut

\* every callback has returned although no consumer ever dequeued a frame
C6_Witness ==
    /\ nframes = MaxFrames
    /\ cb_pc = "idle"
    /\ delivered = << >>
    /\ Len(audio_queue) = MaxFrames
    /\ pc = "loop_done"

\* where frame x stands in the sequence s
PosIn(s, x) == CHOOSE j \in 1..Len(s) : s[j] = x

\* C7: the frames dequeued by listen_for_wake_word and record_speech are
\* frames the callback enqueued, in the order it enqueued them, each at most
\* once.
C7_FifoDelivery ==
    /\ \A i \in 1..Len(delivered) : \E j \in 1..Len(enqueued) :
           enqueued[j] = delivered[i]
    /\ \A i, j \in 1..Len(delivered) :
           i < j => PosIn(enqueued, delivered[i]) < PosIn(enqueued, delivered[j])

\* both loops have dequeued frames, and a frame in between was discarded
C7_Witness ==
    /\ Len(delivered) >= 3
    /\ speech_chunks # << >>
    /\ delivered[Len(delivered)] - delivered[1] >= Len(delivered)

\* C8 (as stated): listen_for_wake_word reports no detection for a frame it
\* processes after the stop flag was set.
C8_NoDetectionAfterStop == ~late_detect

\* C9 (as stated): a record_speech call that found the stop flag set when it
\* began a poll returns no utterance.
C9_RecordCancelled ==
    (pc = "truth_test" /\ late_poll) => audio_data = << >>

----------------------------------------------------------------------------
(* Claims about the endpointing scenario (SpecEndpoint)                     *)

\* the recording has ended
RecordingEnded == pc \in {"rec_end", "truth_test"}

\* C10 (as stated): the recording ends when the 32nd silence frame has been
\* processed.
C10_EndsAtSilenceFrame32 ==
    /\ RecordingEnded => Len(speech_chunks) = scenario_speech + 32
    /\ Len(speech_chunks) <= scenario_speech + 32

\* C10 (amended): the recording ends exactly when the 33rd silence frame has
\* been processed, before max_duration, and the segment is the speech frames
\* followed by 33 silence frames, in order.
C10_EndsAtSilenceFrame33 ==
    /\ RecordingEnded <=> Len(speech_chunks) = scenario_speech + 33
    /\ Len(speech_chunks) <= scenario_speech + 33
    /\ RecordingEnded => now - recording_start < max_duration
    /\ \A i \in 1..Len(speech_chunks) : speech_chunks[i] = i
    /\ pc = "truth_test" =>
           audio_data = concatenate([i \in 1..(scenario_speech + 33) |-> i])

\* ten speech frames and 33 silence frames were recorded and returned
C10_Witness ==
    /\ scenario_speech = 10
    /\ pc = "truth_test"
    /\ Len(speech_chunks) = 43
    /\ now = 43 * frame_period

----------------------------------------------------------------------------
(* Claims about record_speech used directly (SpecDirect)                    *)

\* C11: while a recording is running or has just ended, less than
\* max_duration plus one poll timeout has passed since it started; the loop
\* test ends the recording only when max_duration has passed, and when
\* max_duration has passed the loop test ends it, whatever the classifier
\* reported and whether or not frames arrived.
C11_HardCap ==
    /\ [](pc \in {"rec_while", "rec_get", "rec_end"} =>
             now - recording_start < max_duration + PollTimeout)
    /\ [][(pc = "rec_while" /\ pc' = "rec_end") =>
             now - recording_start >= max_duration]_vars
    /\ [][(pc = "rec_while" /\ now - recording_start >= max_duration) =>
             pc' \in {"rec_while", "rec_end"}]_vars

\* a recording cut off by the cap while the classifier still reported speech
C11_Witness ==
    /\ pc = "rec_end"
    /\ now - recording_start >= max_duration
    /\ silence_start = << >>
    /\ Len(speech_chunks) >= 3

\* C14 (as stated): a speech_to_text(audio_data) call on the handler never
\* raises to its caller.
C14_NeverRaises == stt_result # "raised"

----------------------------------------------------------------------------
(* Claims about the voice processing loop (Spec)                            *)

\* C12 (as stated): a record_speech call whose accumulated segment is shorter
\* than the minimum utterance duration returns no utterance.
C12_TooShortDiscarded ==
    (pc = "truth_test" /\ too_short(concatenate(speech_chunks))) =>
        audio_data = << >>

\* C13 (as stated): when record_speech has returned an utterance, the next
\* step of the loop is the speech_to_text call on it; no error comes between.
C13_HandOff ==
    [][(pc = "truth_test" /\ audio_data # << >>) =>
          pc' \in {"truth_test", "stt_call"}]_vars

\* C15: after record_speech has returned, with or without an utterance, and
\* after a failed step, the loop goes back to its head; at its head it calls
\* listen_for_wake_word as long as running is set; and it ends only when
\* initialize() failed or when it finds running cleared at its head.
C15_ReturnToListening ==
    /\ [][(pc = "truth_test" \/ pc = "except_sleep") =>
             pc' \in {"truth_test", "except_sleep", "while_running"}]_vars
    /\ [][(pc = "while_running" /\ running) =>
             pc' \in {"while_running", "listen_entry"}]_vars
    /\ [][(pc' = "loop_done" /\ pc # "loop_done") =>
             \/ init_result' = "failed"
             \/ pc = "while_running" /\ ~running]_vars

\* the loop is about to listen again after a cycle that failed with an
\* utterance in hand
C15_Witness ==
    /\ pc = "listen_entry"
    /\ audio_data # << >>
    /\ running
    /\ ~stop_event

\* C16: an engine that does not come up and a stream that does not start
\* each make initialize() report failure; once it has, the loop is over and
\* has never listened (no frame dequeued, no detect call), and the other
\* tasks can take their turns as long as the application runs.
C16_InitFailure ==
    /\ [](init_result = "failed" =>
             /\ pc = "loop_done"
             /\ delivered = << >>
             /\ detect_log = << >>
             /\ (running /\ other_runs < MaxOtherRuns) => ENABLED OtherTaskStep)
    /\ [][(pc = "init_wwd" /\ pc' # pc /\ ~wwd_initialized') =>
             init_result' = "failed"]_vars
    /\ [][(pc = "init_stt" /\ pc' # pc /\ ~stt_initialized') =>
             init_result' = "failed"]_vars
    /\ [][(pc = "init_stream" /\ pc' # pc /\ audio_stream' # "started") =>
             init_result' = "failed"]_vars

\* the stream could not be started, the loop is over, and the other tasks
\* have taken their turns
C16_Witness ==
    /\ init_result = "failed"
    /\ wwd_initialized
    /\ stt_initialized
    /\ pc = "loop_done"
    /\ running
    /\ other_runs = MaxOtherRuns

\* C17 (as stated): when initialize() has reported failure, the handler holds
\* no stream.
C17_StreamReleased == init_result = "failed" => audio_stream = "None"

\* detect() returned False for every frame of the log but the last
OnlyLastAccepted(log) ==
    /\ log # << >>
    /\ log[Len(log)]
    /\ \A i \in 1..(Len(log) - 1) : ~log[i]

\* C18: while listen_for_wake_word is in its loop, detect() has returned
\* False for every frame the call dequeued; when it has returned True to the
\* loop, detect() returned True for the last frame the call dequeued and for
\* none before it, and that frame is the last frame taken from the queue.
C18_WakeWordDetection ==
    /\ [](pc \in {"listen_while", "listen_get", "listen_detect"} =>
             \A i \in 1..Len(detect_log) : ~detect_log[i])
    /\ [](pc = "rec_drain" =>
             /\ listen_result
             /\ OnlyLastAccepted(detect_log)
             /\ delivered # << >>
             /\ delivered[Len(delivered)] = audio_chunk)
    /\ [][(pc' = "rec_drain" /\ pc # "rec_drain") =>
             (pc = "listen_detect" /\ wwd_initialized)]_vars

\* Detected on the second frame of the call, with a later frame still queued
C18_Witness ==
    /\ pc = "rec_drain"
    /\ Len(detect_log) = 2
    /\ detect_log[2]
    /\ audio_queue # << >>
    /\ Head(audio_queue) > audio_chunk

\* C19: record_speech is entered only from the step by which
\* listen_for_wake_word returned True, and it runs only with that result in
\* hand; each recording starts with no frames, silence_start None and
\* recording_start set to the current time.
C19_RecordingOnWake ==
    /\ [](pc \in {"rec_drain", "rec_while", "rec_get", "rec_end"} =>
             (listen_result /\ OnlyLastAccepted(detect_log)))
    /\ [][(pc' = "rec_drain" /\ pc # "rec_drain") =>
             (pc = "listen_detect" /\ listen_result')]_vars
    /\ [][(pc = "rec_drain" /\ pc' = "rec_while") =>
             /\ speech_chunks' = << >>
             /\ silence_start' = << >>
             /\ recording_start' = now']_vars

\* a second recording has just started, after one that ended in silence
C19_Witness ==
    /\ pc = "rec_while"
    /\ audio_data # << >>
    /\ Len(delivered) >= 3
    /\ speech_chunks = << >>
    /\ silence_start = << >>
    /\ recording_start = now
    /\ recording_start > 0

\* C20 (as stated): the voice task suspends between two polls, so it never
\* completes two timed-out polls in a row while holding the event loop.
C20_YieldsBetweenPolls == unyielded_polls <= 1

\* record_speech is about to process a frame
FrameAtHand == pc = "rec_get" /\ ~empty(audio_queue)

\* the endpoint rule, with the recording completing when the silence has
\* lasted Done(elapsed)
EndpointRule(e, has_speech, Done(_)) ==
    /\ has_speech => (e.silence_start = << >> /\ ~e.brk)
    /\ (~has_speech /\ silence_start = << >>) =>
           (e.silence_start = <<now>> /\ ~e.brk)
    /\ (~has_speech /\ silence_start # << >>) =>
           /\ e.silence_start = silence_start
           /\ e.brk <=> Done(now - silence_start[1])

\* the silence has lasted the threshold or longer
AtLeastThreshold(elapsed) == elapsed >= silence_duration

\* the silence has lasted longer than the threshold
BeyondThreshold(elapsed) == elapsed > silence_duration

\* C21 (as stated): a speech frame clears silence_start; a silence frame
\* sets it to now when it is unset, and otherwise completes the recording
\* exactly when now - silence_start >= silence_duration.
C21_EndpointInclusive ==
    FrameAtHand =>
        \A has_speech \in BOOLEAN :
            EndpointRule(endpoint(has_speech, silence_start, now), has_speech,
                         AtLeastThreshold)

\* C21 (amended): a speech frame clears silence_start and never ends the
\* recording; a silence frame sets it to now when it is unset, and otherwise
\* leaves it and completes the recording exactly when now - silence_start is
\* greater than silence_duration; every frame record_speech processes moves
\* the loop in one of these three ways.
C21_EndpointStrict ==
    /\ [](FrameAtHand =>
             \A has_speech \in BOOLEAN :
                 EndpointRule(endpoint(has_speech, silence_start, now),
                              has_speech, BeyondThreshold))
    /\ [][(pc = "rec_get" /\ delivered' # delivered) =>
             \/ silence_start' = << >> /\ pc' = "rec_while"
             \/ /\ silence_start = << >>
                /\ silence_start' = <<now>>
                /\ pc' = "rec_while"
             \/ /\ silence_start # << >>
                /\ silence_start' = silence_start
                /\ pc' = "rec_end" <=>
                       now - silence_start[1] > silence_duration]_vars

\* a recording of three frames or more, completed by silence before the cap
C21_Witness ==
    /\ pc = "rec_end"
    /\ silence_start # << >>
    /\ Len(speech_chunks) >= 3
    /\ now - silence_start[1] > silence_duration
    /\ now - recording_start < max_duration

----------------------------------------------------------------------------
(* Further claims about the ring buffer (SpecBuf)                           *)

\* C22: after construction and after every append, write_pos is in
\* 0 .. max_samples - 1 and the storage has exactly max_samples elements.
C22_CursorInRange ==
    /\ write_pos \in 0..(max_samples - 1)
    /\ Len(buffer) = max_samples

\* the storage has been overwritten and the cursor stands inside it
C22_Witness ==
    /\ Len(written) = MaxWritten
    /\ write_pos \in 1..(max_samples - 1)
    /\ \A i \in 1..max_samples : buffer[i] > max_samples

\* the n most recent of the samples appended, preceded by zeros where fewer
\* than n have been appended
MostRecent(n) == Tail_n(zeros(n) \o written, n)

\* C23: in every buffer state and for every duration of n < max_samples
\* samples, read_last returns n samples: the n most recently appended, oldest
\* first, preceded by zeros for the positions never written.
C23_PartialWindow ==
    \A k \in ReadDurations :
        duration_samples(k) < max_samples =>
            read_last(buffer, write_pos, k) = MostRecent(duration_samples(k))

\* a read of fewer than max_samples samples whose window wraps around the end
\* of an overwritten storage
C23_Witness ==
    /\ Len(written) > max_samples
    /\ write_pos >= 1
    /\ Len(read_result) > write_pos
    /\ Len(read_result) < max_samples
    /\ read_result = Tail_n(written, Len(read_result))

----------------------------------------------------------------------------
(* Claims about the ring buffer under threads (SpecLock)                    *)

\* C24: the array a read_last call is about to return is what read_last
\* gives on a buffer state that was whole during the call (before or after
\* an append, never in between), and the array the last call returned still
\* holds what it held when it was returned, whatever has been appended since.
C24_SnapshotReads ==
    /\ rd_pc = "return" =>
           \E st \in rd_seen :
               contents(rd_result) = read_last(st.buffer, st.write_pos, rd_k)
    /\ contents(rd_ret) = rd_value

\* a wrapped read has returned, and an append that waited for it has since
\* gone through and changed the storage it read
C24_Witness ==
    /\ rd_pc = "idle"
    /\ wr_pc = "idle"
    /\ Len(rd_value) >= 2
    /\ Len(rd_value) < max_samples
    /\ Len(written) > max_samples
    /\ \E j \in 1..(Len(written) - Len(rd_value)) :
           rd_value = SubSeq(written, j, j + Len(rd_value) - 1)

\* C25 (as stated): the capture thread, once inside write at the lock, can
\* always take it: no other thread holds it.
C25_CallbackNeverWaitsOnLock == wr_pc = "acquire" => ENABLED WriteLock

----------------------------------------------------------------------------
(* Further claims about the capture callback (Spec)                         *)

\* C26 (as stated): a callback invoked with an error status appends nothing
\* to the ring buffer and pushes nothing onto the queue.
C26_ErrorFrameDropped ==
    /\ []((cb_pc = "put" /\ cb_status) =>
             Tail_n(written, chunk_size) # FrameSamples(nframes))
    /\ [][(cb_pc = "put" /\ cb_status) => audio_queue' = audio_queue]_vars

----------------------------------------------------------------------------
(* Further claims about speech_to_text used directly (SpecDirect)           *)

\* C27 (as stated): a speech_to_text call with an utterance shorter than
\* half a second of samples returns None, and one with a longer utterance
\* returns what the engine gives, text or None.
C27_FinalLengthGuard ==
    pc = "stt_done" =>
        IF too_short(audio_data) THEN stt_result = "None"
        ELSE stt_result \in {"text", "None"}

----------------------------------------------------------------------------
(* Claims about shutdown (Spec)                                             *)

\* C28 (as stated): once shutdown has run to its end, the handler holds no
\* started stream, whenever the shutdown ran.
C28_ClosedAfterShutdown == sd_pc = "done" => audio_stream # "started"

\* C29 (as stated): once a shutdown() call has returned, running is cleared,
\* whenever the call was made.
C29_RequestNotLost == sd_pc \in {"returned", "done"} => ~running

----------------------------------------------------------------------------
(* Claims about the start of a recording (Spec)                             *)

Recording == pc \in {"rec_while", "rec_get", "rec_end", "truth_test"}

\* the frames that had been put on the queue when the drain finished
EnqueuedBeforeDrain == {enqueued[j] : j \in 1..drain_mark.enqueued}

\* the frames taken from the queue since the drain finished, in dequeue order
DequeuedSinceDrain ==
    SubSeq(delivered, drain_mark.delivered + 1, Len(delivered))

\* C30: from the end of the drain to the return of record_speech, the
\* recorded frames are exactly the frames dequeued since the drain, in
\* dequeue order, none of them was enqueued before the drain finished, and
\* a returned utterance is their concatenation.
C30_StartsFromEmptyChannel ==
    Recording =>
        /\ speech_chunks = DequeuedSinceDrain
        /\ \A i \in 1..Len(speech_chunks) :
               speech_chunks[i] \notin EnqueuedBeforeDrain
        /\ (pc = "truth_test" /\ audio_data # << >>) =>
               audio_data = concatenate(speech_chunks)

\* an utterance of two frames or more has been returned, and the drain had
\* discarded a frame that was queued when record_speech was entered
C30_Witness ==
    /\ pc = "truth_test"
    /\ Len(speech_chunks) >= 2
    /\ audio_data = concatenate(speech_chunks)
    /\ \E f \in EnqueuedBeforeDrain :
           \A i \in 1..Len(delivered) : delivered[i] # f

----------------------------------------------------------------------------
(* Claims about transcription (SpecTranscribe)                              *)

EngineCallInProgress == pc = "transcribe_await"

----------------------------------------------------------------------------
(* Claims about where a recording can end (Spec)                            *)

\* the last two frames of the recording were both classified as non-speech
EndsOnTwoSilentFrames ==
    /\ Len(vad_log) >= 2
    /\ ~vad_log[Len(vad_log)]
    /\ ~vad_log[Len(vad_log) - 1]

\* C32: a poll that times out goes back to the loop test and never ends the
\* recording; the loop is left from a poll only with a dequeued non-speech
\* frame whose predecessor in the recording is non-speech too; and the
\* recording ends without a new frame only at the loop test, once
\* max_duration has passed.
C32_EndpointOnlyOnFrame ==
    /\ [](Recording => Len(vad_log) = Len(speech_chunks))
    /\ [][(pc = "rec_get" /\ pc' # "rec_get"
             /\ speech_chunks' = speech_chunks) => pc' = "rec_while"]_vars
    /\ [][(pc = "rec_get" /\ pc' = "rec_end") =>
             /\ speech_chunks' = Append(speech_chunks, get(audio_queue).item)
             /\ EndsOnTwoSilentFrames']_vars
    /\ [][(pc # "rec_end" /\ pc' = "rec_end"
             /\ speech_chunks' = speech_chunks) =>
             /\ pc = "rec_while"
             /\ now - recording_start >= max_duration]_vars

\* a recording that began with speech has been ended by silence before the
\* cap
C32_Witness ==
    /\ pc = "rec_end"
    /\ Len(vad_log) >= 3
    /\ vad_log[1]
    /\ EndsOnTwoSilentFrames
    /\ now - recording_start < max_duration

----------------------------------------------------------------------------
(* Claims about the stop flag and a repeated cleanup (SpecHandler)          *)

\* a step of cleanup()
CleanupStep ==
    CleanupStop \/ CleanupStream \/ CleanupWakeWord \/ CleanupQueue

\* the stop flag, once set, stays set
C33_StopFlagOneWay == [][stop_event => stop_event']_vars

\* a listen_for_wake_word call that finds the stop flag set at its entry or
\* at its loop test takes no frame and returns False
C33_ListenAfterStop ==
    [][(stop_event /\ (pc = "listen_entry" \/ pc = "listen_while")) =>
          /\ delivered' = delivered
          /\ pc' \in {"listen_entry", "listen_while", "while_running"}
          /\ pc' = "while_running" => listen_result' = FALSE]_vars

\* no step of a cleanup() called again changes the handler
C33_SecondCleanupChangesNothing ==
    [][(cleanups >= 1 /\ CleanupStep) => UNCHANGED vhvars]_vars

\* C33 (as stated): the stop flag is never cleared, so a later
\* listen_for_wake_word call returns False without dequeuing a frame, and a
\* second cleanup() changes no state of the handler.
C33_StopIsFinal ==
    /\ C33_StopFlagOneWay
    /\ C33_ListenAfterStop
    /\ C33_SecondCleanupChangesNothing

====
